---------------------------- MODULE Spec2Model ----------------------------
(***************************************************************************)
(* One run of optimize_charging (src/simulation/simulation.py): the hourly *)
(* horizon, the vehicles, the linear program handed to Gurobi, the         *)
(* feasibility relaxation of the per-vehicle rate caps, the solve and the  *)
(* extraction of the result record.                                        *)
(*                                                                         *)
(* Units.  Power and energy are integers in 0.01 kW / 0.01 kWh (one hour   *)
(* slots, so kW and kWh coincide).  Spot prices are NOK/MWh, tariffs are   *)
(* NOK/kW.  Costs are integers in 0.00001 NOK: energy * price needs no     *)
(* scaling, tariff * peak is multiplied by 1000.  Values rounded by        *)
(* round(x, 2) are integers in 0.01 NOK.                                   *)
(*                                                                         *)
(* The solver.  m.optimize() runs Gurobi's simplex on a linear program; it *)
(* answers INFEASIBLE, or OPTIMAL with a basic optimal solution.  The      *)
(* model enumerates the feasible points whose coordinates are multiples of *)
(* Level (half the flat rate) and returns, nondeterministically, any basic *)
(* one of least objective.  The vehicle profiles of Init are chosen so    *)
(* that the vertices of the program lie on that grid.  The step is held in *)
(* quantum, so that a run with other energies can use another grid.        *)
(***************************************************************************)
EXTENDS Integers, Sequences, FiniteSets, TLC

VARIABLES
    df_overview,           \* session table: Seq of [StartHour, EndHour, Energy, Max_power]
    df_spotprice_csv,      \* the price file: Seq of [DateTimeUtc, Price], ascending
    df_spotprice,          \* "Price [NOK/MWh]" of the rows from the start time on
    peak_costs,            \* month -> tariff (NOK/kW)
    start_time_utc,        \* hour of the year of the simulation start
    power_method,          \* "Reell" (observed rates) or "22" (flat 22.1 kW)
    global_capacity_kW,    \* the capacity the caller wants (spec run parameter)
    quantum,               \* the step of the enumerated solution values
    pc,                    \* position in optimize_charging
    n_hours,
    hours_to_month,
    vehicles,
    charging_cost_per_hour,
    relaxed,               \* feasRelax has rewritten the model
    minrelax,              \* feasRelax's return value (penalised violation), -1: none
    solves,                \* number of m.optimize() calls
    status,                \* m.status
    charge_rate,           \* charge_rate[v][t].x
    peak_load_monthly,     \* peak_load_monthly[m].x
    slack,                 \* value of the artificial variable of con_power[v][t]
    objVal,                \* m.objVal
    result,                \* the export_dict returned to the caller
    df_detailed,           \* readings: Seq of [DateTimeUtc, Charged_energy, charge_cycle_id, energy_cost]
    start_time,            \* the start time handed to get_real_costs
    hours_to_shift,        \* int(hours_to_shift) of shift_dataframe_time
    load_df,               \* hourly load profile: hour -> [Charged_energy, energy_cost]
    total_monthly_costs,   \* the rows calculate_monthly_costs returns
    df_charge_session,     \* charge history: Seq of [StartDateTime, EndDateTime, CommitEndDateTime, Energy]
    limit,                 \* least energy of a session that is kept
    departure24,           \* departures are cut to 24 hours after the arrival
    first_date,            \* sessions starting before it are dropped (-1: not given)
    last_date              \* sessions ending at or after it are dropped (-1: not given)

inputs == <<df_overview, df_spotprice_csv, df_spotprice, peak_costs, start_time_utc, power_method,
            global_capacity_kW, quantum>>
horizon == <<n_hours, hours_to_month>>
solution == <<status, charge_rate, peak_load_monthly, slack, objVal>>
baseline == <<df_detailed, start_time, hours_to_shift, load_df, total_monthly_costs>>
preprocess == <<df_charge_session, limit, departure24, first_date, last_date>>
vars == <<inputs, pc, horizon, vehicles, charging_cost_per_hour, relaxed, minrelax,
          solves, solution, result, baseline, preprocess>>

-----------------------------------------------------------------------------
(* Program constants *)

max_charge_rate_22 == 2210
max_total_load == 50000
conpens == 1

(* Bounds of the model *)

MaxCars == 2
PeakRange == 1

\* One grid step of the enumerated solution values: 11.05 kW.
Level == max_charge_rate_22 \div 2

NoResult == [status |-> "none"]

-----------------------------------------------------------------------------
(* Helpers *)

RECURSIVE SumOver(_, _)
SumOver(f, S) ==
    IF S = {} THEN 0
    ELSE LET e == CHOOSE e \in S : TRUE IN f[e] + SumOver(f, S \ {e})

MaxOf(S) == CHOOSE a \in S : \A b \in S : b <= a
MinOf(S) == CHOOSE a \in S : \A b \in S : a <= b

\* Python's lst[i] for a list held as a sequence: negative indices count from the end.
ListHas(lst, i) == -Len(lst) <= i /\ i < Len(lst)
ListGet(lst, i) == IF i >= 0 THEN lst[i + 1] ELSE lst[Len(lst) + i + 1]

\* round(x, 2) of a cost x given in 0.00001 NOK, as an integer number of 0.01 NOK
\* (ties to even, as Python rounds).
Round2(x) ==
    LET q == x \div 1000
        r == x % 1000
    IN  IF r > 500 \/ (r = 500 /\ q % 2 = 1) THEN q + 1 ELSE q

\* The calendar: month of an hour of a (non-leap) year.
CumDays == <<0, 31, 59, 90, 120, 151, 181, 212, 243, 273, 304, 334, 365>>
MonthOf(h) ==
    LET hh == h % (365 * 24)
    IN  CHOOSE mo \in 1..12 : CumDays[mo] * 24 <= hh /\ hh < CumDays[mo + 1] * 24

-----------------------------------------------------------------------------
(* Spot prices (lines 20-35) *)

\* start_time_utc in df_spotprice.index
StartInIndex == \E i \in DOMAIN df_spotprice_csv : df_spotprice_csv[i].DateTimeUtc = start_time_utc
\* df_spotprice[~(df_spotprice.index < start_time_utc)], as its price column
RelevantSpotprices ==
    LET NotBefore(r) == ~(r.DateTimeUtc < start_time_utc)
        rows == SelectSeq(df_spotprice_csv, NotBefore)
    IN  [i \in DOMAIN rows |-> rows[i].Price]

(* Horizon (lines 80-96) *)

N_cars == Len(df_overview)
Cars == 1..N_cars
Hours == 0..(n_hours - 1)

EndHourMax == MaxOf({df_overview[i].EndHour : i \in 1..Len(df_overview)})
\* (mutant) the date range stops one hour before the end point
all_dates_WithoutEnd(n) == [t \in 0..(n - 1) |-> start_time_utc + t]

\* pd.date_range(start, start + n hours, freq='H'): both end points included
all_dates(n) == [t \in 0..n |-> start_time_utc + t]
\* {hour: date.month for hour, date in enumerate(all_dates)}
HoursToMonth(n) == [t \in DOMAIN all_dates(n) |-> MonthOf(all_dates(n)[t])]
unique_months == {hours_to_month[t] : t \in DOMAIN hours_to_month}

(* Vehicles (lines 107-119) *)

\* (mutant) the observed rate column is used in both modes
ElectricVehicle_ObservedAlways(i) ==
    [arrival_time    |-> df_overview[i].StartHour,
     departure_time  |-> df_overview[i].EndHour,
     required_charge |-> df_overview[i].Energy,
     max_charge_rate |-> df_overview[i].Max_power]

ElectricVehicle(i) ==
    [arrival_time    |-> df_overview[i].StartHour,
     departure_time  |-> df_overview[i].EndHour,
     required_charge |-> df_overview[i].Energy,
     max_charge_rate |-> IF power_method = "Reell" THEN df_overview[i].Max_power
                         ELSE max_charge_rate_22]

-----------------------------------------------------------------------------
(* The linear program (lines 126-167).  x is a candidate charge_rate,      *)
(* x[v][t]; P a candidate peak_load_monthly, P[m].                         *)

Window(v) == {t \in Hours : vehicles[v].arrival_time <= t /\ t < vehicles[v].departure_time}

\* (mutant) the objective has no peak term
PeakCost_Absent(P) == 0
\* (mutant) every hour is priced with its own price
PriceIndex_SameHour(t) == t

\* The price index the objective and the per-vehicle cost use for hour t.
PriceIndex(t) == t - 1

EnergyCostOf(x, v) ==
    SumOver([t \in Hours |-> x[v][t] * ListGet(charging_cost_per_hour, PriceIndex(t))], Hours)
EnergyCost(x) == SumOver([v \in Cars |-> EnergyCostOf(x, v)], Cars)
PeakCost(P) == SumOver([mo \in unique_months |-> peak_costs[mo] * P[mo] * 1000], unique_months)
Objective(x, P) == EnergyCost(x) + PeakCost(P)

Load(x, t) == SumOver([v \in Cars |-> x[v][t]], Cars)

\* (mutant) the commitment is an upper limit instead of an equality
ChargeConstraint_AtMost(x, v) == SumOver(x[v], Window(v)) <= vehicles[v].required_charge
\* (mutant) charging is only forbidden before the arrival
NoChargeOutsideStay_BeforeOnly(x, v, t) == t < vehicles[v].arrival_time => x[v][t] = 0
\* (mutant) no rate cap is added
MaxChargeRate_Absent(x, s, v, t) == TRUE
\* (mutant) the linkage loop starts at hour 1
PeakRows_FromOne == 1..(n_hours - 1)
\* (mutant) no capacity limit is added
CapacityLimit_Absent(x, t) == TRUE

\* charge_constraint_v
ChargeConstraint(x, v) == SumOver(x[v], Window(v)) = vehicles[v].required_charge
\* no_charge_outside_stay_v_t
NoChargeOutsideStay(x, v, t) ==
    (t < vehicles[v].arrival_time \/ t >= vehicles[v].departure_time) => x[v][t] = 0
\* max_charge_rate_per_vehicle_v_t, with its artificial variable s
MaxChargeRate(x, s, v, t) == x[v][t] <= vehicles[v].max_charge_rate + s
\* the hours that get a monthly_peak_t constraint
PeakRows == Hours
\* capacity_limit
CapacityLimit(x, t) == Load(x, t) <= max_total_load

Grid(upto) == {k * quantum : k \in 0..(upto \div quantum)}

\* The rows of one vehicle that meet its own equality constraints.  No variable of
\* vehicle v is enumerated above its required charge.
Rows(v) ==
    {r \in [Hours -> Grid(vehicles[v].required_charge)] :
        /\ ChargeConstraint([w \in Cars |-> r], v)
        /\ \A t \in Hours : NoChargeOutsideStay([w \in Cars |-> r], v, t)}

RECURSIVE Schedules(_)
Schedules(k) ==
    IF k = 0 THEN {<<>>}
    ELSE {Append(s, r) : s \in Schedules(k - 1), r \in Rows(k)}

\* The excess of x over the rate caps: the least value of each artificial variable.
Excess(x) == [v \in Cars |-> [t \in Hours |->
                 IF x[v][t] > vehicles[v].max_charge_rate
                 THEN x[v][t] - vehicles[v].max_charge_rate ELSE 0]]
NoSlack == [v \in Cars |-> [t \in Hours |-> 0]]
\* The relaxation objective (relaxobjtype 0): the penalised sum of the violations,
\* in 0.001 kW.
Violation(s) == SumOver([v \in Cars |-> SumOver([t \in Hours |-> conpens * s[v][t]], Hours)], Cars)

\* The charge schedules meeting every constraint that is never relaxed, and the
\* rate caps with the artificial variables s(x).
Feasible(relax) ==
    {x \in Schedules(N_cars) :
        /\ \A t \in Hours : CapacityLimit(x, t)
        /\ LET s == IF relax THEN Excess(x) ELSE NoSlack
           IN  \A v \in Cars : \A t \in Hours : MaxChargeRate(x, s[v][t], v, t)}

\* feasRelax(relaxobjtype=0, minrelax=True, constrs=con_power, rhspen=conpens) solves
\* the relaxation for the least penalised violation and returns it (negative when no
\* relaxation exists).
FeasRelaxValue ==
    IF Feasible(TRUE) = {} THEN -1
    ELSE MinOf({Violation(Excess(x)) : x \in Feasible(TRUE)})

\* The least value the monthly peak linkage leaves to P[mo].
LeastPeak(x, mo) ==
    MaxOf({0} \cup {Load(x, t) : t \in {u \in PeakRows : hours_to_month[u] = mo}})

\* (mutant) the violation of the relaxed model is not pinned to its minimum
RelaxedSchedules_Unpinned == Feasible(TRUE)

\* The schedules of the model feasRelax leaves: with minrelax=True the violation is
\* pinned to its minimum.
RelaxedSchedules == {x \in Feasible(TRUE) : Violation(Excess(x)) = minrelax}

\* The points of the model being solved: after feasRelax every artificial equals the
\* excess.
Points ==
    LET X == IF relaxed THEN RelaxedSchedules ELSE Feasible(FALSE)
    IN  UNION {{[x |-> x, P |-> P, s |-> IF relaxed THEN Excess(x) ELSE NoSlack] :
                  P \in {Q \in [unique_months -> Grid(MaxOf({LeastPeak(x, mo) : mo \in unique_months})
                                                         + PeakRange * quantum)] :
                           \A mo \in unique_months :
                              /\ Q[mo] >= LeastPeak(x, mo)
                              /\ Q[mo] <= LeastPeak(x, mo) + PeakRange * quantum}}
               : x \in X}

\* A basic solution has no variable that can move both ways on its own: a monthly
\* peak above every load of its month can.
IsBasic(p) == \A mo \in unique_months : p.P[mo] = LeastPeak(p.x, mo)

\* The solutions simplex can return: the basic points of least objective.
Optimal ==
    LET pts  == Points
        best == MinOf({Objective(p.x, p.P) : p \in pts})
    IN  {p \in pts : Objective(p.x, p.P) = best /\ IsBasic(p)}

\* (mutant) the objective can be read whatever the status
ObjValAvailable_Always == TRUE
\* (mutant) feasRelax is called in both modes
RelaxEligible_Always == TRUE

\* The monthly cost loop reads charging_cost_per_hour[key] for every aggregated hour.
PricesCoverAggregation ==
    \A t \in (DOMAIN hours_to_month) \ {MaxOf(DOMAIN hours_to_month)} :
        ListHas(charging_cost_per_hour, t)

\* The objective is only read when a solution exists (m.objVal raises otherwise).
ObjValAvailable == status = "OPTIMAL"

\* feasRelax is called for the observed rates only.
RelaxEligible == power_method = "Reell"

-----------------------------------------------------------------------------
(* Result extraction (lines 215-281) *)

total_load_profile == [t \in Hours |-> Load(charge_rate, t)]

\* (mutant) the total is the energy cost alone
TotalCost_EnergyOnly(e, p) == e
\* (mutant) the last two keys are dropped from the copy
AggregatedHours_DropTwo == (DOMAIN hours_to_month) \ {n_hours, n_hours - 1}

\* total_cost, from the two rounded costs
TotalCost(e, p) == e + p

\* The keys of hours_to_month_copy: the last key of hours_to_month is popped.
AggregatedHours == (DOMAIN hours_to_month) \ {MaxOf(DOMAIN hours_to_month)}
MonthsOfHours == {hours_to_month[t] : t \in AggregatedHours}

ExportDict ==
    LET energy == EnergyCost(charge_rate)
        peak   == PeakCost(peak_load_monthly)
        total_energy_cost == Round2(energy)
        total_peak_cost   == Round2(peak)
    IN  [status |-> "returned",
         total_cost |-> TotalCost(total_energy_cost, total_peak_cost),
         total_energy_cost |-> total_energy_cost,
         total_peak_cost |-> total_peak_cost,
         exceeded_power |-> Round2(objVal),
         peak_load_monthly |-> peak_load_monthly,
         peak_cost_monthly |-> [mo \in unique_months |-> peak_costs[mo] * peak_load_monthly[mo] * 1000],
         vehicle_energy_cost |-> [v \in Cars |-> EnergyCostOf(charge_rate, v)],
         total_load_profile |-> total_load_profile,
         vehicles_charging_schedule |-> charge_rate,
         monthly_energy_charge |->
             [mo \in MonthsOfHours |->
                 SumOver(total_load_profile, {t \in AggregatedHours : hours_to_month[t] = mo})],
         monthly_energy_cost |->
             [mo \in MonthsOfHours |->
                 SumOver([t \in Hours |-> total_load_profile[t] * ListGet(charging_cost_per_hour, t)],
                         {t \in AggregatedHours : hours_to_month[t] = mo})]]

-----------------------------------------------------------------------------
(* Inputs *)

Session(a, d, e, p) == [StartHour |-> a, EndHour |-> d, Energy |-> e, Max_power |-> p]

Profiles ==
    << Session(0, 1, 2 * Level, 2 * Level),
       Session(0, 2, 2 * Level, Level),
       Session(0, 2, 4 * Level, 2 * Level),
       Session(1, 2, 2 * Level, Level),
       Session(0, 1, 4 * Level, 2 * Level),
       Session(1, 1, 2 * Level, 2 * Level),
       Session(0, 1, 23 * Level, 2 * Level),
       Session(1, 2, 4 * Level, 4 * Level) >>

ProfileIds == 1..Len(Profiles)
\* Fleets of 1..MaxCars sessions; the order of the rows does not matter to the
\* program, so each fleet is listed once, by non-decreasing profile.
FleetIds ==
    {f \in UNION {[1..k -> ProfileIds] : k \in 1..MaxCars} :
        \A i \in DOMAIN f : \A j \in DOMAIN f : i <= j => f[i] <= f[j]}
Fleets == {[i \in DOMAIN f |-> Profiles[f[i]]] : f \in FleetIds}

PriceLevels == {0, 805}
PriceSeries == [1..2 -> PriceLevels]

TariffTables ==
    { [mo \in 1..12 |-> 30],
      [mo \in 1..12 |-> IF mo = 1 THEN 0 ELSE 30],
      [mo \in 1..12 |-> IF mo = 2 THEN 0 ELSE 35] }

\* Jan 31 22:00, Jan 31 23:00, Dec 31 23:00
StartTimes == {742, 743, 8759}

Capacities == {max_total_load, 3 * Level}

\* Price files, by the hours they have relative to the start: complete, without the
\* start hour, without the hour after it, ending after the start hour.
PriceAt(h) == IF h % 2 = 0 THEN 805 ELSE 0
FileHours == { <<-1, 0, 1, 2>>, <<-1, 1, 2>>, <<-1, 0, 2, 3>>, <<-1, 0>> }
PriceFile(start, hs) ==
    [i \in DOMAIN hs |-> [DateTimeUtc |-> start + hs[i], Price |-> PriceAt(start + hs[i])]]

\* process_chargehistory has not been called.
NoPreprocess ==
    /\ df_charge_session = <<>>
    /\ limit = 0
    /\ departure24 = FALSE
    /\ first_date = -1
    /\ last_date = -1

\* get_real_costs has not been called.
NoBaseline ==
    /\ df_detailed = <<>>
    /\ start_time = 0
    /\ hours_to_shift = 0
    /\ load_df = <<>>
    /\ total_monthly_costs = {}

Init ==
    /\ df_overview \in Fleets
    /\ df_spotprice_csv = <<>>
    /\ df_spotprice \in PriceSeries
    /\ peak_costs \in TariffTables
    /\ start_time_utc \in StartTimes
    /\ power_method \in {"Reell", "22"}
    /\ global_capacity_kW \in Capacities
    /\ quantum = Level
    /\ pc = "start"
    /\ n_hours = 0
    /\ hours_to_month = <<>>
    /\ vehicles = <<>>
    /\ charging_cost_per_hour = <<>>
    /\ relaxed = FALSE
    /\ minrelax = -1
    /\ solves = 0
    /\ status = "LOADED"
    /\ charge_rate = <<>>
    /\ peak_load_monthly = <<>>
    /\ slack = <<>>
    /\ objVal = 0
    /\ result = NoResult
    /\ NoBaseline
    /\ NoPreprocess

-----------------------------------------------------------------------------
(* Steps of optimize_charging *)

\* lines 80-96
HorizonBuilder ==
    /\ pc = "start"
    /\ n_hours' = EndHourMax
    /\ hours_to_month' = HoursToMonth(EndHourMax)
    /\ pc' = "horizon"
    /\ UNCHANGED <<preprocess, baseline, inputs, vehicles, charging_cost_per_hour, relaxed, minrelax, solves,
                   solution, result>>

\* lines 107-167: the vehicles, the price list, the variables, objective and
\* constraints.  Building the objective reads charging_cost_per_hour[t-1] for every
\* hour; an index outside the list ends the run.
ModelBuilder ==
    /\ pc = "horizon"
    /\ vehicles' = [i \in Cars |-> ElectricVehicle(i)]
    /\ LET lst == SubSeq(df_spotprice, 1, IF n_hours < Len(df_spotprice) THEN n_hours
                                          ELSE Len(df_spotprice))
       IN  /\ charging_cost_per_hour' = lst
           /\ pc' = IF \A t \in Hours : ListHas(lst, PriceIndex(t)) THEN "built" ELSE "failed"
    /\ UNCHANGED <<preprocess, baseline, inputs, horizon, relaxed, minrelax, solves, solution, result>>

\* lines 174-177
ConstraintRelaxer ==
    /\ pc = "built"
    /\ RelaxEligible
    /\ ~relaxed
    /\ relaxed' = TRUE
    /\ minrelax' = FeasRelaxValue
    /\ UNCHANGED <<preprocess, baseline, inputs, pc, horizon, vehicles, charging_cost_per_hour, solves,
                   solution, result>>

\* line 180
Solver ==
    /\ pc = "built"
    /\ RelaxEligible => relaxed
    /\ solves' = solves + 1
    /\ pc' = "solved"
    /\ IF Points = {}
       THEN \* no solution: the variables carry no values (held as zeros here)
            /\ status' = "INFEASIBLE"
            /\ charge_rate' = NoSlack
            /\ peak_load_monthly' = [mo \in unique_months |-> 0]
            /\ slack' = NoSlack
            /\ objVal' = 0
       ELSE \E p \in Optimal :
            /\ status' = "OPTIMAL"
            /\ charge_rate' = p.x
            /\ peak_load_monthly' = p.P
            /\ slack' = p.s
            /\ objVal' = Objective(p.x, p.P)
    /\ UNCHANGED <<preprocess, baseline, inputs, horizon, vehicles, charging_cost_per_hour, relaxed, minrelax,
                   result>>

\* lines 184-289 with a solution: the status is printed, the costs are read and the
\* export_dict is built and returned.
ResultExtractor ==
    /\ pc = "solved"
    /\ ObjValAvailable
    /\ PricesCoverAggregation
    /\ result' = ExportDict
    /\ pc' = "returned"
    /\ UNCHANGED <<preprocess, baseline, inputs, horizon, vehicles, charging_cost_per_hour, relaxed, minrelax,
                   solves, solution>>

\* lines 184-199 without a solution: the status is printed, then reading m.objVal
\* raises and the exception leaves optimize_charging.
ObjValRaises ==
    /\ pc = "solved"
    /\ ~ObjValAvailable
    /\ pc' = "failed"
    /\ UNCHANGED <<preprocess, baseline, inputs, horizon, vehicles, charging_cost_per_hour, relaxed, minrelax,
                   solves, solution, result>>

Next ==
    \/ HorizonBuilder
    \/ ModelBuilder
    \/ ConstraintRelaxer
    \/ Solver
    \/ ResultExtractor
    \/ ObjValRaises

Spec == Init /\ [][Next]_vars

-----------------------------------------------------------------------------
(* run_simulation (lines 5-17): the price file is cut to the start time, then      *)
(* optimize_charging runs.                                                         *)

InitRun ==
    /\ df_overview \in Fleets
    /\ start_time_utc \in {742, 743}
    /\ df_spotprice_csv \in {PriceFile(start_time_utc, hs) : hs \in FileHours}
    /\ df_spotprice = <<>>
    /\ peak_costs \in TariffTables
    /\ power_method \in {"Reell", "22"}
    /\ global_capacity_kW = max_total_load
    /\ quantum = Level
    /\ pc = "load"
    /\ n_hours = 0
    /\ hours_to_month = <<>>
    /\ vehicles = <<>>
    /\ charging_cost_per_hour = <<>>
    /\ relaxed = FALSE
    /\ minrelax = -1
    /\ solves = 0
    /\ status = "LOADED"
    /\ charge_rate = <<>>
    /\ peak_load_monthly = <<>>
    /\ slack = <<>>
    /\ objVal = 0
    /\ result = NoResult
    /\ NoBaseline
    /\ NoPreprocess

\* lines 20-35: ValueError when the start time is not in the index
get_relevant_spotprices ==
    /\ pc = "load"
    /\ IF StartInIndex
       THEN /\ df_spotprice' = RelevantSpotprices
            /\ pc' = "start"
       ELSE /\ df_spotprice' = df_spotprice
            /\ pc' = "failed"
    /\ UNCHANGED <<preprocess, baseline, df_overview, df_spotprice_csv, peak_costs, start_time_utc, power_method,
                   global_capacity_kW, quantum, horizon, vehicles, charging_cost_per_hour, relaxed,
                   minrelax, solves, solution, result>>

\* lines 259-269 with a price list shorter than the horizon: IndexError
AggregationRaises ==
    /\ pc = "solved"
    /\ ObjValAvailable
    /\ ~PricesCoverAggregation
    /\ pc' = "failed"
    /\ UNCHANGED <<preprocess, baseline, inputs, horizon, vehicles, charging_cost_per_hour, relaxed, minrelax,
                   solves, solution, result>>

NextRun ==
    \/ get_relevant_spotprices
    \/ HorizonBuilder
    \/ ModelBuilder
    \/ ConstraintRelaxer
    \/ Solver
    \/ ResultExtractor
    \/ ObjValRaises
    \/ AggregationRaises

SpecRun == InitRun /\ [][NextRun]_vars

-----------------------------------------------------------------------------
(* One vehicle with four hours to take 20 kWh at 10 kW at most, a flat price of    *)
(* 1 NOK/kWh, the four hours in January.                                           *)

StartsInJanuary == 725..740
FlatVehicle == Session(0, 4, 2000, 1000)

InitFlat ==
    /\ df_overview = <<FlatVehicle>>
    /\ df_spotprice_csv = <<>>
    /\ df_spotprice = [i \in 1..5 |-> 1000]
    /\ peak_costs \in {tt \in TariffTables : tt[1] > 0}
    /\ start_time_utc \in StartsInJanuary
    /\ power_method = "Reell"
    /\ global_capacity_kW = max_total_load
    /\ quantum = 500
    /\ pc = "start"
    /\ n_hours = 0
    /\ hours_to_month = <<>>
    /\ vehicles = <<>>
    /\ charging_cost_per_hour = <<>>
    /\ relaxed = FALSE
    /\ minrelax = -1
    /\ solves = 0
    /\ status = "LOADED"
    /\ charge_rate = <<>>
    /\ peak_load_monthly = <<>>
    /\ slack = <<>>
    /\ objVal = 0
    /\ result = NoResult
    /\ NoBaseline
    /\ NoPreprocess

NextFlat ==
    \/ HorizonBuilder
    \/ ModelBuilder
    \/ ConstraintRelaxer
    \/ Solver
    \/ ResultExtractor

SpecFlat == InitFlat /\ [][NextFlat]_vars

-----------------------------------------------------------------------------
(* get_real_costs (src/simulation/real_load_profile.py): the cost of the load      *)
(* that was measured, moved to the start time of the simulation.                   *)
(*                                                                                 *)
(* The timestamps of the readings and of the sessions are integers in quarters of  *)
(* an hour since the start of year 0 (the readings are taken every 15 minutes);    *)
(* hours are numbered from the same origin and the price file is indexed by hour.  *)
(* A reading without a Charged_energy (the last of its cycle) is held with 0, as   *)
(* every sum of the program skips it.                                              *)

files == <<df_spotprice_csv, df_spotprice, peak_costs, start_time_utc, power_method,
           global_capacity_kW, quantum>>
optimisation == <<horizon, vehicles, charging_cost_per_hour, relaxed, minrelax, solves,
                  solution, result>>

RECURSIVE SeqOfSet(_)
SeqOfSet(S) == IF S = {} THEN <<>> ELSE <<MinOf(S)>> \o SeqOfSet(S \ {MinOf(S)})

\* (mutant) a cycle's cost is the cost of its last reading
CycleCost_LastReading(d, id) ==
    d[MaxOf({i \in DOMAIN d : d[i].charge_cycle_id = id})].energy_cost

\* Timestamp.floor('H'), as the number of the hour
FloorHour(q) == q \div 4
\* int(a / b): the fraction is cut off, towards zero
IntTrunc(a, b) == IF a >= 0 THEN a \div b ELSE -((-a) \div b)

\* shift_dataframe_time (lines 44-77)
min_time == 4 * FloorHour(MinOf({df_detailed[i].DateTimeUtc : i \in DOMAIN df_detailed}))
HoursToShift == IntTrunc(start_time - min_time, 4)

\* add_energy_cost (lines 80-107)
HasPrice(h) == \E i \in DOMAIN df_spotprice_csv : df_spotprice_csv[i].DateTimeUtc = h
SpotPrice(h) ==
    df_spotprice_csv[CHOOSE i \in DOMAIN df_spotprice_csv :
                        df_spotprice_csv[i].DateTimeUtc = h].Price
\* spot_price * Charged_energy / 1000, in 0.00001 NOK
ReadingCost(r) == SpotPrice(FloorHour(r.DateTimeUtc)) * r.Charged_energy
CycleCost(d, id) ==
    SumOver([i \in DOMAIN d |-> IF d[i].charge_cycle_id = id THEN d[i].energy_cost ELSE 0],
            DOMAIN d)
CycleIds(d) == {d[i].charge_cycle_id : i \in DOMAIN d}

\* The hourly load profile (lines 34-36), held by its hours with readings; the hours
\* between them are rows of zeros.
SumColumn(d, I, col) == SumOver([i \in I |-> d[i][col]], I)
LoadDf ==
    LET hourOf(i) == FloorHour(df_detailed[i].DateTimeUtc)
        at(h) == {i \in DOMAIN df_detailed : hourOf(i) = h}
    IN  [h \in {hourOf(i) : i \in DOMAIN df_detailed} |->
            [Charged_energy |-> SumColumn(df_detailed, at(h), "Charged_energy"),
             energy_cost    |-> SumColumn(df_detailed, at(h), "energy_cost")]]

\* calculate_monthly_costs (lines 110-146)
YearMonth(h) == 12 * (h \div (CumDays[13] * 24)) + MonthOf(h)
MonthNumber(ym) == ((ym - 1) % 12) + 1
\* The calendar months from the first to the last reading (the bins of freq='M').
MonthBins ==
    LET hs == {FloorHour(df_detailed[i].DateTimeUtc) : i \in DOMAIN df_detailed}
    IN  YearMonth(MinOf(hs))..YearMonth(MaxOf(hs))
\* load_df.groupby([load_df.index.month])['Charged_energy'].idxmax(): one group for
\* each month number, whatever the year
PeakLoad(mo) ==
    MaxOf({0} \cup {load_df[h].Charged_energy : h \in {g \in DOMAIN load_df : MonthOf(g) = mo}})
MonthlyCosts ==
    LET in(ym) == {i \in DOMAIN df_detailed :
                      YearMonth(FloorHour(df_detailed[i].DateTimeUtc)) = ym}
        row(ym) ==
            LET mo == MonthNumber(ym)
                peak_cost == peak_costs[mo] * PeakLoad(mo) * 1000
                energy_cost == SumColumn(df_detailed, in(ym), "energy_cost")
            IN  [Month |-> mo,
                 MonthEnd |-> ym,
                 Peak_load |-> PeakLoad(mo),
                 Monthly_Peak_Cost |-> peak_cost,
                 Charged_energy |-> SumColumn(df_detailed, in(ym), "Charged_energy"),
                 energy_cost |-> energy_cost,
                 total_cost |-> peak_cost + energy_cost]
    IN  {row(ym) : ym \in MonthBins}

(* Inputs *)

Reading(q, e, id) ==
    [DateTimeUtc |-> q, Charged_energy |-> e, charge_cycle_id |-> id, energy_cost |-> 0]

\* Readings from 1 January 10:15 of year 0 on: within one month, in January and
\* February, in the Januaries of two years.
Recordings ==
    { << Reading(41, 300, 1), Reading(42, 200, 1), Reading(45, 400, 1),
         Reading(46, 100, 2), Reading(50, 250, 2) >>,
      << Reading(41, 300, 1), Reading(45, 200, 1),
         Reading(4 * 744 + 41, 500, 2), Reading(4 * 744 + 42, 100, 2) >>,
      << Reading(41, 300, 1), Reading(42, 300, 1),
         Reading(4 * 8760 + 41, 200, 2), Reading(4 * 8760 + 45, 100, 2) >> }

\* The session table of the readings: one row for each cycle, its times floored to
\* the hour (preprocess_zaptec.remove_etterlading).
SessionsOf(d) ==
    LET ids == SeqOfSet(CycleIds(d))
        qs(id) == {d[i].DateTimeUtc : i \in {j \in DOMAIN d : d[j].charge_cycle_id = id}}
    IN  [k \in DOMAIN ids |->
            [charge_cycle_id |-> ids[k],
             StartDateTime |-> 4 * FloorHour(MinOf(qs(ids[k]))),
             EndDateTime |-> 4 * FloorHour(MaxOf(qs(ids[k]))),
             energy_cost |-> -1]]

\* A price file with the hours around the readings.
PricesAround(d) ==
    PriceFile(0, SeqOfSet(UNION {(FloorHour(d[i].DateTimeUtc) - 3)..(FloorHour(d[i].DateTimeUtc) + 3)
                                    : i \in DOMAIN d}))

\* Start times from 08:30 to 11:30 of 1 January, on and off the hour; the first
\* reading floored to the hour is 10:00.
StartTimesReal == {34, 36, 39, 40, 43, 44, 46}

\* optimize_charging is not part of get_real_costs.
NoOptimisation ==
    /\ df_spotprice = <<>>
    /\ start_time_utc = 0
    /\ power_method = "22"
    /\ global_capacity_kW = max_total_load
    /\ quantum = Level
    /\ n_hours = 0
    /\ hours_to_month = <<>>
    /\ vehicles = <<>>
    /\ charging_cost_per_hour = <<>>
    /\ relaxed = FALSE
    /\ minrelax = -1
    /\ solves = 0
    /\ status = "LOADED"
    /\ charge_rate = <<>>
    /\ peak_load_monthly = <<>>
    /\ slack = <<>>
    /\ objVal = 0
    /\ result = NoResult

InitReal ==
    /\ df_detailed \in Recordings
    /\ df_overview = SessionsOf(df_detailed)
    /\ df_spotprice_csv = PricesAround(df_detailed)
    /\ peak_costs \in TariffTables
    /\ start_time \in StartTimesReal
    /\ hours_to_shift = 0
    /\ load_df = <<>>
    /\ total_monthly_costs = {}
    /\ pc = "loaded"
    /\ NoOptimisation
    /\ NoPreprocess

\* lines 44-77
shift_dataframe_time ==
    /\ pc = "loaded"
    /\ hours_to_shift' = HoursToShift
    /\ df_detailed' = [i \in DOMAIN df_detailed |->
                          [df_detailed[i] EXCEPT !.DateTimeUtc = @ + 4 * HoursToShift]]
    /\ df_overview' = [k \in DOMAIN df_overview |->
                          [df_overview[k] EXCEPT !.StartDateTime = @ + 4 * HoursToShift,
                                                 !.EndDateTime = @ + 4 * HoursToShift]]
    /\ pc' = "shifted"
    /\ UNCHANGED <<preprocess, files, optimisation, start_time, load_df, total_monthly_costs>>

\* lines 80-107; looking up an hour the price file does not have raises KeyError
add_energy_cost ==
    /\ pc = "shifted"
    /\ IF \A i \in DOMAIN df_detailed : HasPrice(FloorHour(df_detailed[i].DateTimeUtc))
       THEN LET d == [i \in DOMAIN df_detailed |->
                        [df_detailed[i] EXCEPT !.energy_cost = ReadingCost(df_detailed[i])]]
            IN  /\ df_detailed' = d
                /\ df_overview' =
                      [k \in DOMAIN df_overview |->
                          IF df_overview[k].charge_cycle_id \in CycleIds(d)
                          THEN [df_overview[k] EXCEPT
                                   !.energy_cost = CycleCost(d, df_overview[k].charge_cycle_id)]
                          ELSE df_overview[k]]
                /\ pc' = "costed"
       ELSE /\ pc' = "failed"
            /\ UNCHANGED <<df_detailed, df_overview>>
    /\ UNCHANGED <<preprocess, files, optimisation, start_time, hours_to_shift, load_df,
                   total_monthly_costs>>

\* lines 34-36
get_load_profile ==
    /\ pc = "costed"
    /\ load_df' = LoadDf
    /\ pc' = "profiled"
    /\ UNCHANGED <<preprocess, inputs, optimisation, df_detailed, start_time, hours_to_shift,
                   total_monthly_costs>>

\* lines 110-146
calculate_monthly_costs ==
    /\ pc = "profiled"
    /\ total_monthly_costs' = MonthlyCosts
    /\ pc' = "done"
    /\ UNCHANGED <<preprocess, inputs, optimisation, df_detailed, start_time, hours_to_shift, load_df>>

NextReal ==
    \/ shift_dataframe_time
    \/ add_energy_cost
    \/ get_load_profile
    \/ calculate_monthly_costs

SpecReal == InitReal /\ [][NextReal]_vars

-----------------------------------------------------------------------------
(* process_chargehistory (src/preprocess_data/preprocess_zaptec.py): the charge    *)
(* history of Zaptec is filtered and given whole-hour arrivals and departures.     *)
(* Timestamps are quarters of an hour since the start of year 0, energies 0.01 kWh.*)

MaxSessions == 3

\* (mutant) sessions that cannot be charged in their hours are kept
Chargeable_Always(r) == TRUE

\* lines 44-66: committed end, first_date, last_date, energy above the limit
Committed(r) == r.EndDateTime = r.CommitEndDateTime
FromFirstDate(r) == first_date # -1 => r.StartDateTime >= first_date
BeforeLastDate(r) == last_date # -1 => r.EndDateTime < last_date
AboveLimit(r) == r.Energy > limit

\* lines 71-78: min_time = Energy / 22.1 h as whole seconds; time_diff in seconds
MinChargeSeconds(r) == (r.Energy * 3600) \div max_charge_rate_22
LongEnough(r) == (r.EndDateTime - r.StartDateTime) * 900 > MinChargeSeconds(r)

\* lines 125-136: both times floored to the hour, the departure cut to 24 hours
FlooredAndCut(r) ==
    LET start == 4 * FloorHour(r.StartDateTime)
        end   == 4 * FloorHour(r.EndDateTime)
    IN  [r EXCEPT !.StartDateTime = start,
                  !.EndDateTime = IF departure24 /\ end > start + 4 * 24
                                  THEN start + 4 * 24 ELSE end]

\* lines 139-144: hours counted from the earliest arrival of the table handed in
ProcessArrivalDepartureTimes(rows) ==
    LET cut == [i \in DOMAIN rows |-> FlooredAndCut(rows[i])]
        first_arrival == MinOf({cut[i].StartDateTime : i \in DOMAIN cut})
    IN  [i \in DOMAIN cut |->
            [StartDateTime |-> cut[i].StartDateTime,
             EndDateTime |-> cut[i].EndDateTime,
             CommitEndDateTime |-> cut[i].CommitEndDateTime,
             Energy |-> cut[i].Energy,
             StartHour |-> (cut[i].StartDateTime - first_arrival) \div 4,
             EndHour |-> (cut[i].EndDateTime - first_arrival) \div 4]]

\* lines 88-90
Parked(r) == r.StartDateTime # r.EndDateTime /\ r.EndDateTime > r.StartDateTime
\* lines 95-98: time_frame_hours * charging_power > Energy
Chargeable(r) ==
    IntTrunc(r.EndDateTime - r.StartDateTime, 4) * max_charge_rate_22 > r.Energy

(* Inputs *)

History(a, d, c, e) ==
    [StartDateTime |-> a, EndDateTime |-> d, CommitEndDateTime |-> c, Energy |-> e]

\* Sessions of 1 and 2 January: 10:15-12:30, 10:30-11:45, 00:15-00:45 (within one
\* hour), 01:15-03:45 with 45 kWh, 02:00-08:00 of the next day, the same with 600 kWh,
\* 10:00-11:00 with 30 kWh, one whose end was not committed.
Histories ==
    << History(41, 50, 50, 1000),
       History(42, 47, 47, 1500),
       History(1, 3, 3, 600),
       History(5, 15, 15, 4500),
       History(8, 128, 128, 2000),
       History(8, 128, 128, 60000),
       History(40, 44, 44, 3000),
       History(4, 30, 31, 1000) >>

HistoryIds ==
    {f \in UNION {[1..k -> 1..Len(Histories)] : k \in 1..MaxSessions} :
        \A i \in DOMAIN f : \A j \in DOMAIN f : i < j => f[i] < f[j]}

InitPrep ==
    /\ df_charge_session \in {[i \in DOMAIN f |-> Histories[f[i]]] : f \in HistoryIds}
    /\ limit \in {500, 1000}
    /\ departure24 \in BOOLEAN
    /\ first_date \in {-1, 4}
    /\ last_date \in {-1, 100}
    /\ df_overview = <<>>
    /\ df_spotprice_csv = <<>>
    /\ peak_costs = <<>>
    /\ pc = "history"
    /\ NoOptimisation
    /\ NoBaseline

\* lines 40-79
remove_invalid_charging ==
    /\ pc = "history"
    /\ LET Valid(r) == /\ Committed(r) /\ FromFirstDate(r) /\ BeforeLastDate(r)
                        /\ AboveLimit(r) /\ LongEnough(r)
       IN  df_overview' = SelectSeq(df_charge_session, Valid)
    /\ pc' = "valid"
    /\ UNCHANGED <<preprocess, files, optimisation, baseline>>

\* line 82 (lines 111-146)
process_arrival_departure_times ==
    /\ pc = "valid"
    /\ df_overview' = ProcessArrivalDepartureTimes(df_overview)
    /\ pc' = "hours"
    /\ UNCHANGED <<preprocess, files, optimisation, baseline>>

\* lines 88-99
delete_new_invalid_rows ==
    /\ pc = "hours"
    /\ LET Kept(r) == Parked(r) /\ Chargeable(r)
       IN  df_overview' = SelectSeq(df_overview, Kept)
    /\ pc' = "retained"
    /\ UNCHANGED <<preprocess, files, optimisation, baseline>>

\* line 102: get_detailed_charging takes one argument and is called with two, which
\* raises TypeError
get_detailed_charging ==
    /\ pc = "retained"
    /\ pc' = "failed"
    /\ UNCHANGED <<preprocess, inputs, optimisation, baseline>>

NextPrep ==
    \/ remove_invalid_charging
    \/ process_arrival_departure_times
    \/ delete_new_invalid_rows
    \/ get_detailed_charging

SpecPrep == InitPrep /\ [][NextPrep]_vars

-----------------------------------------------------------------------------
(* Properties *)

Returned == pc = "returned"
Failed == pc = "failed"
Schedule == result.vehicles_charging_schedule
HardFeasible == Feasible(FALSE) # {}
SomeSlack == \E v \in Cars : \E t \in Hours : slack[v][t] > 0
ActiveAt(v, t) == df_overview[v].StartHour <= t /\ t < df_overview[v].EndHour

\* C1: in every returned result, flat or observed mode, relaxed or not, each
\* vehicle's charge summed over the hours of [arrival, departure) equals its
\* required energy.
C1_EnergyCommitment ==
    Returned =>
        \A v \in Cars :
            SumOver(Schedule[v], {t \in Hours : ActiveAt(v, t)}) = df_overview[v].Energy

\* A result of a relaxed run of two vehicles in which a rate cap is exceeded.
C1_Witness == Returned /\ relaxed /\ SomeSlack /\ N_cars = 2

\* C2: in every returned result each vehicle's charge is 0 in every hour of the
\* horizon outside [arrival, departure), also when the rate caps are relaxed.
C2_WindowConfinement ==
    Returned =>
        \A v \in Cars : \A t \in Hours : ~ActiveAt(v, t) => Schedule[v][t] = 0

\* A relaxed result with a violated cap and a vehicle that has an hour outside its
\* window.
C2_Witness ==
    /\ Returned /\ relaxed /\ SomeSlack
    /\ \E v \in Cars : \E t \in Hours : ~ActiveAt(v, t)

\* C3: in every returned result charge[v,t] <= max_charge_rate[v] + slack[v,t] with
\* slack >= 0; the slack is 0 everywhere when feasRelax was not applied and when the
\* model is feasible under the hard caps; in flat mode no charge exceeds 22.1 kW.
C3_RateCap ==
    Returned =>
        /\ \A v \in Cars : \A t \in Hours :
              /\ slack[v][t] >= 0
              /\ Schedule[v][t] <= vehicles[v].max_charge_rate + slack[v][t]
              /\ power_method = "Reell" => vehicles[v].max_charge_rate = df_overview[v].Max_power
              /\ power_method = "22" => Schedule[v][t] <= max_charge_rate_22
        /\ (~relaxed \/ HardFeasible) => ~SomeSlack

\* A flat-mode result in which a vehicle charges at the full 22.1 kW.
C3_Witness ==
    /\ Returned /\ power_method = "22"
    /\ \E v \in Cars : \E t \in Hours : Schedule[v][t] = max_charge_rate_22

\* C4 as stated: in every returned result each hour's fleet load is at most the
\* capacity the run was given as its parameter.
C4_RunCapacity ==
    Returned =>
        \A t \in Hours : result.total_load_profile[t] <= global_capacity_kW

\* C4 as amended: in every returned result each hour's fleet load is at most the
\* fixed 500 kW of max_total_load, with or without relaxation of the rate caps.
C4_FixedCapacity ==
    Returned =>
        \A t \in Hours : result.total_load_profile[t] <= max_total_load

\* Two vehicles both active at hour 0 whose combined hour-0 charge is above the
\* capacity asked for, in a relaxed result.
C4_Witness ==
    /\ Returned /\ relaxed /\ N_cars = 2
    /\ ActiveAt(1, 0) /\ ActiveAt(2, 0)
    /\ result.total_load_profile[0] > 20 * Level

C6_SameHourPrice ==
    Returned =>
        /\ \A v \in Cars :
              result.vehicle_energy_cost[v] =
                  SumOver([t \in Hours |-> Schedule[v][t] * charging_cost_per_hour[t + 1]], Hours)
        /\ result.total_energy_cost = Round2(SumOver(result.vehicle_energy_cost, Cars))

\* C7 as stated: the model is only relaxed after a solve of the run has returned
\* INFEASIBLE, only in observed mode, and never when it is feasible under the hard
\* caps.
C7_RelaxOnlyAfterInfeasible ==
    [][(~relaxed /\ relaxed') =>
          (power_method = "Reell" /\ solves >= 1 /\ status = "INFEASIBLE" /\ ~HardFeasible)]_vars

\* C7 as amended: relaxation is applied only in observed mode, and there always and
\* before the run's single solve, whether or not the hard model is feasible (for a
\* feasible one the relaxation it computes is 0); flat mode is never relaxed.
C7_RelaxBeforeTheSolve ==
    /\ relaxed => power_method = "Reell"
    /\ solves <= 1
    /\ (solves = 1 /\ power_method = "Reell") => relaxed
    /\ (solves = 1 /\ power_method = "22") => ~relaxed
    /\ (relaxed /\ HardFeasible) => minrelax = 0

\* A model that is feasible under the hard caps, relaxed before its first solve.
C7_Witness == relaxed /\ pc = "built" /\ solves = 0 /\ HardFeasible

\* C8: exceeded_power is 0 when relaxation did not run and when the hard model is
\* feasible, and otherwise the penalised sum of the rate-cap slack values; it is
\* never the cost of the schedule.
C8_ExceededPower ==
    Returned =>
        result.exceeded_power =
            IF relaxed /\ ~HardFeasible THEN Round2(Violation(slack) * 100) ELSE 0

RateOf(i) == IF power_method = "Reell" THEN df_overview[i].Max_power ELSE max_charge_rate_22
Overcommitted(i) ==
    df_overview[i].Energy > RateOf(i) * (df_overview[i].EndHour - df_overview[i].StartHour)
EmptyWindow(i) == df_overview[i].EndHour = df_overview[i].StartHour

\* C10 as stated: with a vehicle whose required energy exceeds rate * window the run
\* is rejected while the model is built: the solver is never invoked and no result
\* is returned.
C10_RejectedBeforeSolving ==
    (\E i \in Cars : Overcommitted(i)) => (solves = 0 /\ pc \notin {"solved", "returned"})

\* C10 as amended: nothing is validated while the model is built.  In flat mode, and
\* in either mode when the window is empty, such a vehicle makes the solve end
\* INFEASIBLE and the run fail without a result, after the solver was invoked.
C10_InfeasibleAfterSolving ==
    (\E i \in Cars : Overcommitted(i) /\ (power_method = "22" \/ EmptyWindow(i))) =>
        /\ ~Returned /\ result = NoResult
        /\ pc = "solved" => status = "INFEASIBLE"
        /\ Failed => (solves = 1 /\ status = "INFEASIBLE")

\* A flat-mode run with an overcommitted vehicle that failed after its solve.
C10_Witness ==
    /\ Failed /\ power_method = "22" /\ solves = 1
    /\ \E i \in Cars : Overcommitted(i) /\ ~EmptyWindow(i)

\* C12: in every returned result total_cost is exactly the sum of the
\* total_energy_cost and the total_peak_cost stored in the same record, both already
\* rounded to 0.01 NOK.
C12_TotalIsSumOfStored ==
    Returned =>
        /\ result.total_cost = result.total_energy_cost + result.total_peak_cost
        /\ result.total_energy_cost = Round2(EnergyCost(Schedule))
        /\ result.total_peak_cost = Round2(PeakCost(result.peak_load_monthly))

\* A result with a peak cost above 0 and an energy cost that rounding has changed.
C12_Witness ==
    /\ Returned /\ result.total_peak_cost > 0
    /\ EnergyCost(Schedule) % 1000 # 0

\* C13: the monthly sums of the result add, for each month, the load of every hour
\* 0..n_hours-1 of that month, and that load times the price of the same hour; only
\* the boundary index n_hours is left out, so the monthly energies add up to the whole
\* load profile.
C13_MonthlyAggregation ==
    Returned =>
        LET load == result.total_load_profile
            hrs(mo) == {t \in 0..(n_hours - 1) : MonthOf(start_time_utc + t) = mo}
            months == {MonthOf(start_time_utc + t) : t \in 0..(n_hours - 1)}
        IN  /\ DOMAIN load = 0..(n_hours - 1)
            /\ DOMAIN result.monthly_energy_charge = months
            /\ DOMAIN result.monthly_energy_cost = months
            /\ \A mo \in months :
                  /\ result.monthly_energy_charge[mo] = SumOver(load, hrs(mo))
                  /\ result.monthly_energy_cost[mo] =
                        SumOver([t \in hrs(mo) |-> load[t] * df_spotprice[t + 1]], hrs(mo))
            /\ SumOver(result.monthly_energy_charge, months) = SumOver(load, DOMAIN load)

\* A result over two months with load in the last hour of the horizon, the boundary
\* index lying in the second month.
C13_Witness ==
    /\ Returned /\ n_hours = 2
    /\ hours_to_month[0] # hours_to_month[1]
    /\ result.total_load_profile[1] > 0
    /\ result.monthly_energy_cost[hours_to_month[1]] > 0

\* C14: the horizon is a function of the start time and the largest departure hour
\* alone: n_hours+1 consecutive hours 0..n_hours from the start, each mapped to the
\* month of start + t, and one monthly peak variable for exactly each month of that
\* map, the month of the boundary index n_hours included.
C14_HorizonBuilder ==
    pc # "start" =>
        /\ n_hours = EndHourMax
        /\ DOMAIN all_dates(n_hours) = 0..n_hours
        /\ all_dates(n_hours)[0] = start_time_utc
        /\ \A t \in 0..(n_hours - 1) : all_dates(n_hours)[t + 1] = all_dates(n_hours)[t] + 1
        /\ DOMAIN hours_to_month = 0..n_hours
        /\ \A t \in 0..n_hours : hours_to_month[t] = MonthOf(start_time_utc + t)
        /\ solves >= 1 =>
              DOMAIN peak_load_monthly = {MonthOf(start_time_utc + t) : t \in 0..n_hours}

\* A solved run whose boundary index n_hours lies in a month no scheduled hour is in.
C14_Witness ==
    /\ status = "OPTIMAL" /\ solves = 1
    /\ \A t \in Hours : hours_to_month[t] # hours_to_month[n_hours]

\* C16: in observed mode, a run whose model is infeasible under the hard rate caps
\* but has a relaxation is relaxed and returns a result whose exceeded_power is
\* above 0 and in which every vehicle's energy commitment is met exactly.
C16_SpikeReported ==
    (pc \in {"solved", "returned"} /\ power_method = "Reell" /\ ~HardFeasible
        /\ Feasible(TRUE) # {}) =>
        /\ relaxed /\ status = "OPTIMAL"
        /\ Returned =>
              /\ result.exceeded_power > 0
              /\ \A v \in Cars :
                    SumOver(Schedule[v], {t \in Hours : ActiveAt(v, t)}) = df_overview[v].Energy

\* The hours of the horizon [start, start + n_hours) the price file has no row for.
MissingHours ==
    {t \in 0..(EndHourMax - 1) :
        \A i \in DOMAIN df_spotprice_csv : df_spotprice_csv[i].DateTimeUtc # start_time_utc + t}

\* C11: when the price file lacks an hour of [start, start + n_hours), the start hour
\* or one strictly inside the horizon, the run ends with an error before any solver
\* call and returns nothing, so no price is used for another hour than its own.
C11_DataGapRejected ==
    MissingHours # {} => (solves = 0 /\ ~Returned /\ result = NoResult)

\* C15 as stated: for one vehicle with window [0,4), 20 kWh to take, 10 kW at most
\* and a flat price of 1 per kWh, every returned schedule charges 10 kWh in exactly
\* two of the four hours and 0 in the other two, and the energy cost is 20.
C15_TwoFullHours ==
    (Returned /\ df_overview = <<FlatVehicle>>) =>
        /\ Cardinality({t \in Hours : Schedule[1][t] = 1000}) = 2
        /\ Cardinality({t \in Hours : Schedule[1][t] = 0}) = 2
        /\ result.total_energy_cost = 2000

\* C15 as amended: with the four hours in one month of positive peak tariff, the
\* returned schedule is the flat one, 5 kWh in each of the four hours, with a monthly
\* peak of 5 kW, and the energy cost is 20.
C15_FlatSchedule ==
    (Returned /\ df_overview = <<FlatVehicle>>) =>
        /\ \A t \in Hours : Schedule[1][t] = 500
        /\ result.peak_load_monthly[hours_to_month[0]] = 500
        /\ result.total_energy_cost = 2000

\* A result for that vehicle, the boundary index 4 lying in February.
C15_Witness ==
    /\ Returned /\ df_overview = <<FlatVehicle>> /\ n_hours = 4
    /\ hours_to_month[3] = 1 /\ hours_to_month[4] = 2
    /\ peak_costs[1] > 0

\* C18: shift_dataframe_time adds the same whole number of hours, the mathematical
\* floor of (S - M) in hours, to every timestamp of the readings and to every
\* StartDateTime and EndDateTime of the sessions, for every S, earlier than M and off
\* the hour included.
C18_FloorShift ==
    [][(pc = "loaded" /\ pc' = "shifted") =>
          LET k == (start_time - min_time) \div 4
          IN  /\ \A i \in DOMAIN df_detailed :
                    df_detailed'[i].DateTimeUtc = df_detailed[i].DateTimeUtc + 4 * k
              /\ \A j \in DOMAIN df_overview :
                    /\ df_overview'[j].StartDateTime = df_overview[j].StartDateTime + 4 * k
                    /\ df_overview'[j].EndDateTime = df_overview[j].EndDateTime + 4 * k]_vars

\* The calendar months (year and month) that have readings.
MonthsWithReadings ==
    {YearMonth(FloorHour(df_detailed[i].DateTimeUtc)) : i \in DOMAIN df_detailed}

\* C19: calculate_monthly_costs returns, for each calendar month that has readings,
\* exactly one row; its peak cost is the month's tariff times the largest hourly load
\* among the hours of that same calendar month, its energy cost the sum of the costs
\* of the readings of that month, its total_cost the sum of the two; also for data
\* that covers the same month number in two years.
C19_OneRowPerCalendarMonth ==
    pc = "done" =>
        \A ym \in MonthsWithReadings :
            LET rows == {r \in total_monthly_costs : r.Month = MonthNumber(ym)}
                peak == MaxOf({load_df[h].Charged_energy :
                                  h \in {g \in DOMAIN load_df : YearMonth(g) = ym}})
                in   == {i \in DOMAIN df_detailed :
                            YearMonth(FloorHour(df_detailed[i].DateTimeUtc)) = ym}
            IN  /\ Cardinality(rows) = 1
                /\ \A r \in rows :
                      /\ r.Monthly_Peak_Cost = peak_costs[MonthNumber(ym)] * peak * 1000
                      /\ r.energy_cost = SumColumn(df_detailed, in, "energy_cost")
                      /\ r.total_cost = r.Monthly_Peak_Cost + r.energy_cost

\* C20: add_energy_cost gives every reading the cost price[its hour] x Charged_energy
\* / 1000, and every cycle of the session table the sum of the costs of exactly the
\* readings with its charge_cycle_id, so the cycles' costs add up to the readings'.
C20_CostJoin ==
    pc \in {"costed", "profiled", "done"} =>
        /\ \A i \in DOMAIN df_detailed :
              \E j \in DOMAIN df_spotprice_csv :
                  /\ df_spotprice_csv[j].DateTimeUtc = df_detailed[i].DateTimeUtc \div 4
                  /\ df_detailed[i].energy_cost =
                        df_spotprice_csv[j].Price * df_detailed[i].Charged_energy
        /\ \A k \in DOMAIN df_overview :
              LET own == {i \in DOMAIN df_detailed :
                             df_detailed[i].charge_cycle_id = df_overview[k].charge_cycle_id}
              IN  df_overview[k].energy_cost = SumColumn(df_detailed, own, "energy_cost")
        /\ SumColumn(df_overview, DOMAIN df_overview, "energy_cost")
              = SumColumn(df_detailed, DOMAIN df_detailed, "energy_cost")

\* Costed readings of two cycles, one of them with readings in two hours of
\* different price and a cost above 0.
C20_Witness ==
    /\ pc = "costed" /\ Len(df_overview) = 2
    /\ \E i \in DOMAIN df_detailed : \E j \in DOMAIN df_detailed :
          /\ df_detailed[i].charge_cycle_id = df_detailed[j].charge_cycle_id
          /\ df_detailed[i].energy_cost > 0
          /\ df_detailed[j].energy_cost = 0 /\ df_detailed[j].Charged_energy > 0
    /\ \A k \in DOMAIN df_overview : df_overview[k].energy_cost > 0

\* C21: in every returned result the monthly energy costs add up to the total
\* energy cost, which is also the sum of the vehicles' energy costs (up to the
\* rounding of total_energy_cost to 0.01 NOK), whatever the prices of the hours.
C21_MonthlyCostsAddUp ==
    Returned =>
        /\ Round2(SumOver(result.monthly_energy_cost, DOMAIN result.monthly_energy_cost))
              = result.total_energy_cost
        /\ result.total_energy_cost = Round2(SumOver(result.vehicle_energy_cost, Cars))

\* The least cost of the model with the hard rate caps, never relaxed.
HardOptimum ==
    MinOf({Objective(x, [mo \in unique_months |-> LeastPeak(x, mo)]) : x \in Feasible(FALSE)})

\* C22: in observed mode, for a model that is feasible under the hard rate caps,
\* the result of the run that applies feasRelax before solving exceeds no rate cap
\* and has the total cost of the unrelaxed model's optimum.
C22_RelaxedEqualsHard ==
    (Returned /\ power_method = "Reell" /\ HardFeasible) =>
        /\ relaxed
        /\ \A v \in Cars : \A t \in Hours : Schedule[v][t] <= df_overview[v].Max_power
        /\ objVal = HardOptimum
        /\ result.total_cost = Round2(HardOptimum)

\* A relaxed result of a feasible model of two vehicles at different prices, a
\* vehicle charging at its observed cap.
C22_Witness ==
    /\ Returned /\ power_method = "Reell" /\ relaxed /\ HardFeasible /\ N_cars = 2
    /\ df_spotprice[1] # df_spotprice[2]
    /\ \E v \in Cars : \E t \in Hours :
          /\ Schedule[v][t] = df_overview[v].Max_power
          /\ df_overview[v].Energy > df_overview[v].Max_power

Retained == pc \in {"retained", "failed"} /\ df_charge_session # <<>>

\* C23: every session process_chargehistory retains has a whole-hour arrival and
\* departure with EndHour > StartHour and Energy < 22.1 kW x (EndHour - StartHour),
\* and with departure24 it stays 24 hours at most.
C23_RetainedSessionsValid ==
    Retained =>
        \A i \in DOMAIN df_overview :
            LET r == df_overview[i]
            IN  /\ r.StartDateTime % 4 = 0 /\ r.EndDateTime % 4 = 0
                /\ 4 * (r.EndHour - r.StartHour) = r.EndDateTime - r.StartDateTime
                /\ r.EndHour > r.StartHour
                /\ r.Energy < max_charge_rate_22 * (r.EndHour - r.StartHour)
                /\ departure24 => r.EndHour - r.StartHour <= 24

\* With departure24, a session cut to 24 hours is retained and a session is dropped
\* that could be charged in its full stay but not in 24 hours.
C23_Witness ==
    /\ Retained /\ departure24
    /\ \E i \in DOMAIN df_overview : df_overview[i].EndHour - df_overview[i].StartHour = 24
    /\ \E j \in DOMAIN df_charge_session :
          /\ df_charge_session[j].Energy = 60000
          /\ \A i \in DOMAIN df_overview : df_overview[i].Energy # 60000

\* C24: in the table process_chargehistory retains, the least StartHour is 0, also
\* when the session with the earliest arrival is removed by the later filters.
C24_HoursFromFirstRetained ==
    (Retained /\ df_overview # <<>>) =>
        MinOf({df_overview[i].StartHour : i \in DOMAIN df_overview}) = 0

=============================================================================
